---- MODULE Spec2Model ----
(***************************************************************************)
(* State-machine model of the penaura backend.                             *)
(*                                                                         *)
(* Two deployments exist in the repository: src/app.py (SQLite store,      *)
(* Flask cookie session) and src/api/app.py (MySQL store, JWT bearer       *)
(* token).  The variable `variant` says which one is running; the tables   *)
(* and the client's credential are shared variables, the handlers are      *)
(* separate actions.                                                       *)
(*                                                                         *)
(* Conventions.                                                            *)
(*  - A JSON text field is a string; None stands for a key that is absent  *)
(*    (data.get returns None) and "" for an empty string: Python's `not x` *)
(*    is true of both.                                                     *)
(*  - A JSON number is kept in tenths (30 is 3, 45 is 4.5); an absent      *)
(*    number is the empty sequence, a present one a one-element sequence.  *)
(*    An aggregate average is kept in hundredths (450 is 4.5).             *)
(*  - A table is a set of rows.  The columns created_at / updated_at and   *)
(*    the surrogate ids of ratings and settings are never read by any      *)
(*    handler that decides something and are left out.                     *)
(*  - Every handler is one action: it runs from the request to the         *)
(*    response.  `last` records the handler that ran last, its status and  *)
(*    error message and what became of the connection it opened.           *)
(***************************************************************************)
EXTENDS Integers, Sequences, FiniteSets

\* ------------------------------------------------------------------ bounds
\* Cap on the posts AUTOINCREMENT counter.
MaxPosts == 1

\* ------------------------------------------------------- program constants
Categories == {"poetry", "short", "novel"}
Themes == {"light", "dark"}
DefaultCategory == "poetry"
DefaultTheme == "light"

\* ------------------------------------------------------------ input domains
None == "None"
Emails == {"ann@x.com", "bob@x.com"}
\* Request bodies of signup: a complete one per email, and one with each field absent.
SignupInputs ==
    {[name |-> "Ann", email |-> e, password |-> "pw123"] : e \in Emails}
    \cup {[name |-> None, email |-> "ann@x.com", password |-> "pw123"],
          [name |-> "Ann", email |-> None, password |-> "pw123"],
          [name |-> "Ann", email |-> "bob@x.com", password |-> ""]}
\* Request bodies of login: the right password per email, a wrong one, absent fields.
LoginInputs ==
    {[email |-> e, password |-> "pw123"] : e \in Emails}
    \cup {[email |-> "ann@x.com", password |-> "wrong"],
          [email |-> None, password |-> "pw123"],
          [email |-> "bob@x.com", password |-> None]}
\* Request bodies with a field absent or empty, or a category outside the enum.
BadPostInputs ==
    {[title |-> None, category |-> "poetry", content |-> "body"],
     [title |-> "T", category |-> None, content |-> "body"],
     [title |-> "T", category |-> "poetry", content |-> ""],
     [title |-> "T", category |-> "essay", content |-> "body"]}
\* Request bodies of create_post and of update_post: a valid one and the bad ones.
PostInputs == {[title |-> "T", category |-> "poetry", content |-> "body"]} \cup BadPostInputs
EditInputs == {[title |-> "T2", category |-> "novel", content |-> "text"]} \cup BadPostInputs
\* Request bodies of rate_post: absent, 0, 3, 4.5, 5, 6.
RatingInputs == {<<>>, <<0>>, <<30>>, <<45>>, <<50>>, <<60>>}
\* Request bodies of update_settings: theme only, default_category only, a
\* theme outside the enum.
SettingsInputs ==
    {[default_category |-> None, theme |-> "dark"],
     [default_category |-> "novel", theme |-> None],
     [default_category |-> "novel", theme |-> "neon"]}
\* Post ids of requests: one more than can exist, so one never exists.
PostIds == 1..(MaxPosts + 1)
RatedPostIds == 1..MaxPosts
\* A third account exists only where Init registers it (InitAggregate).
SeedEmails == Emails \cup {"cat@x.com"}
UserIds == 1..Cardinality(SeedEmails)
\* Request bodies of rate_post where three users rate one post: 3, 4, 4.5, 5.
AggregateRatingInputs == {<<30>>, <<40>>, <<45>>, <<50>>}

VARIABLES
    variant,    \* "sqlite" (src/app.py) or "mysql" (src/api/app.py)
    users,      \* rows [id, name, email, password]
    settings,   \* rows [user_id, default_category, theme]
    posts,      \* rows [id, user_id, title, category, content]
    ratings,    \* rows [user_id, post_id, rating]
    seq,        \* AUTOINCREMENT counter of posts (largest id ever handed out)
    session,    \* the client's credential: {} or {user id}
    last,       \* the record (Ran) of the handler that ran last
    latest,     \* history: latest accepted rating per <<user, post>>, <<>> if none
    loggedOut   \* history: the session was ended by logout and not renewed since

vars == <<variant, users, settings, posts, ratings, seq, session, last, latest, loggedOut>>

\* ----------------------------------------------------------------- helpers
\* Python truthiness of a text field: `not x`.
Falsy(x) == x \in {None, ""}

\* Python truthiness and range test of the rating: `not rating or not (1 <= rating <= 5)`.
RatingRejected(r) == Len(r) = 0 \/ r[1] = 0 \/ ~(10 =< r[1] /\ r[1] =< 50)

\* werkzeug's salted hash, kept symbolic: the method and the hashed secret.
generate_password_hash(password) == <<"pbkdf2:sha256", password>>
check_password_hash(hash, password) == hash[2] = password

require_login == session # {}
SessionUser == CHOOSE u \in session : TRUE

\* A handler's response and what became of its connection: conn is "none" when
\* the handler opened no connection, "closed" when it closed the one it opened,
\* "open" when it returned (or raised) without closing it.
Resp(op, status, error, conn) ==
    [op |-> op, status |-> status, error |-> error, conn |-> conn]

\* The record kept of the handler that ran last: its response, and as history
\* the post id an update_post or delete_post request named (0 for the other
\* handlers) and the rating value an upsert replaced (<<>> when it replaced none).
Ran(resp, target, overwrote) ==
    [op |-> resp.op, status |-> resp.status, error |-> resp.error, conn |-> resp.conn,
     target |-> target, overwrote |-> overwrote]

\* Largest id of a table, 0 when it is empty.
MaxId(rows) == IF rows = {} THEN 0 ELSE CHOOSE n \in {r.id : r \in rows} : \A r \in rows : r.id =< n

\* sqlite3.connect never issues PRAGMA foreign_keys = ON, so SQLite leaves the
\* FOREIGN KEY clauses of the schema unenforced: no reference check, no cascade.
ForeignKeys == FALSE

\* Flask's answer to an exception no handler catches.
ServerError == "Internal Server Error"

\* ------------------------------------------------------------------- Init
Init ==
    /\ variant \in {"sqlite", "mysql"}
    /\ users = {}
    /\ settings = {}
    /\ posts = {}
    /\ ratings = {}
    /\ seq = 0
    /\ session = {}
    /\ last = Ran(Resp("start", 0, "", "none"), 0, <<>>)
    /\ latest = [k \in (UserIds \X RatedPostIds) |-> <<>>]
    /\ loggedOut = FALSE

\* ------------------------------------------------------- src/app.py: auth
\* signup against a users table whose email column is not UNIQUE.
SignupNoUnique(name, email, password) ==
    LET user_id == MaxId(users) + 1
    IN  IF Falsy(name) \/ Falsy(email) \/ Falsy(password)
        THEN [users |-> users, settings |-> settings,
              resp |-> Resp("signup", 400, "All fields are required", "none")]
        ELSE [users |-> users \cup {[id |-> user_id, name |-> name, email |-> email,
                                     password |-> generate_password_hash(password)]},
              settings |-> settings \cup {[user_id |-> user_id,
                                           default_category |-> DefaultCategory,
                                           theme |-> DefaultTheme]},
              resp |-> Resp("signup", 201, "", "closed")]

\* signup: validation, then INSERT users + INSERT settings in one transaction.
\* An IntegrityError (users.email UNIQUE, settings.user_id UNIQUE) is caught,
\* the connection is closed without commit, which rolls both inserts back.
SignupOutcome(name, email, password) ==
    LET user_id == MaxId(users) + 1
        row == [id |-> user_id, name |-> name, email |-> email,
                password |-> generate_password_hash(password)]
        srow == [user_id |-> user_id, default_category |-> DefaultCategory,
                 theme |-> DefaultTheme]
    IN  IF Falsy(name) \/ Falsy(email) \/ Falsy(password)
        THEN [users |-> users, settings |-> settings,
              resp |-> Resp("signup", 400, "All fields are required", "none")]
        ELSE IF (\E u \in users : u.email = email)
                \/ (\E s \in settings : s.user_id = user_id)
        THEN [users |-> users, settings |-> settings,
              resp |-> Resp("signup", 400, "Email already exists!", "closed")]
        ELSE [users |-> users \cup {row}, settings |-> settings \cup {srow},
              resp |-> Resp("signup", 201, "", "closed")]

Signup(name, email, password) ==
    /\ variant = "sqlite"
    /\ LET o == SignupOutcome(name, email, password)
       IN  /\ users' = o.users
           /\ settings' = o.settings
           /\ last' = Ran(o.resp, 0, <<>>)
    /\ UNCHANGED <<variant, posts, ratings, seq, session, latest, loggedOut>>

\* login: SELECT by email, check the hash, put the user id in the session.
LoginOutcome(email, password) ==
    LET found == {u \in users : u.email = email}
    IN  IF Falsy(email) \/ Falsy(password)
        THEN [session |-> session,
              resp |-> Resp("login", 400, "Email and password are required", "none")]
        ELSE IF \E u \in found : check_password_hash(u.password, password)
        THEN [session |-> {u.id : u \in found},
              resp |-> Resp("login", 200, "", "closed")]
        ELSE [session |-> session,
              resp |-> Resp("login", 401, "Invalid credentials", "closed")]

Login(email, password) ==
    /\ variant = "sqlite"
    /\ LET o == LoginOutcome(email, password)
       IN  /\ session' = o.session
           /\ last' = Ran(o.resp, 0, <<>>)
           /\ loggedOut' = IF o.resp.status = 200 THEN FALSE ELSE loggedOut
    /\ UNCHANGED <<variant, users, settings, posts, ratings, seq, latest>>

\* logout that answers without touching the session.
LogoutKeepsSession ==
    /\ variant = "sqlite"
    /\ session' = session
    /\ loggedOut' = TRUE
    /\ last' = Ran(Resp("logout", 200, "", "none"), 0, <<>>)
    /\ UNCHANGED <<variant, users, settings, posts, ratings, seq, latest>>

\* logout: session.pop("user_id", None).
Logout ==
    /\ variant = "sqlite"
    /\ session' = {}
    /\ loggedOut' = TRUE
    /\ last' = Ran(Resp("logout", 200, "", "none"), 0, <<>>)
    /\ UNCHANGED <<variant, users, settings, posts, ratings, seq, latest>>

\* ------------------------------------------------------ src/app.py: posts
\* create_post: login check, validation, INSERT posts.  The CHECK constraint on
\* category raises sqlite3.IntegrityError, which nothing catches: Flask answers
\* 500 and conn.close() is never reached.
CreatePostOutcome(title, category, content) ==
    IF ~require_login
    THEN [posts |-> posts, seq |-> seq,
          resp |-> Resp("create_post", 401, "Unauthorized", "none")]
    ELSE IF Falsy(title) \/ Falsy(category) \/ Falsy(content)
    THEN [posts |-> posts, seq |-> seq,
          resp |-> Resp("create_post", 400, "All fields are required", "none")]
    ELSE IF category \notin Categories
    THEN [posts |-> posts, seq |-> seq,
          resp |-> Resp("create_post", 500, ServerError, "open")]
    ELSE [posts |-> posts \cup {[id |-> seq + 1, user_id |-> SessionUser,
                                 title |-> title, category |-> category,
                                 content |-> content]},
          seq |-> seq + 1,
          resp |-> Resp("create_post", 201, "", "closed")]

CreatePost(title, category, content) ==
    /\ variant = "sqlite"
    /\ LET o == CreatePostOutcome(title, category, content)
       IN  /\ o.seq =< MaxPosts
           /\ posts' = o.posts
           /\ seq' = o.seq
           /\ last' = Ran(o.resp, 0, <<>>)
    /\ UNCHANGED <<variant, users, settings, ratings, session, latest, loggedOut>>

\* get_user_posts: only the logged-in user's own list.
GetUserPostsOutcome(user_id) ==
    IF ~require_login \/ SessionUser # user_id
    THEN [body |-> {}, resp |-> Resp("get_user_posts", 401, "Unauthorized", "none")]
    ELSE [body |-> {[id |-> p.id, title |-> p.title, category |-> p.category,
                     content |-> p.content] : p \in {q \in posts : q.user_id = user_id}},
          resp |-> Resp("get_user_posts", 200, "", "closed")]

GetUserPosts(user_id) ==
    /\ variant = "sqlite"
    /\ last' = Ran(GetUserPostsOutcome(user_id).resp, 0, <<>>)
    /\ UNCHANGED <<variant, users, settings, posts, ratings, seq, session, latest, loggedOut>>

\* ROUND replaced by a cut after the second decimal.
Trunc2(num, den) == num \div den

\* SQLite's ROUND(x, 2) of the quotient num / den of two naturals, in
\* hundredths when num is in hundredths: to the nearest, a half upwards.
Round2(num, den) == (2 * num + den) \div (2 * den)

RECURSIVE SumRatings(_)
SumRatings(rows) ==
    IF rows = {} THEN 0
    ELSE LET r == CHOOSE x \in rows : TRUE
         IN  r.rating + SumRatings(rows \ {r})

\* IFNULL(ROUND(AVG(rating), 2), 0) and COUNT(rating) over a set of ratings
\* rows.  AVG of no row is NULL, which IFNULL turns into 0.
AggregateOf(rows) ==
    LET n == Cardinality(rows)
    IN  [avg_rating |-> IF n = 0 THEN 0 ELSE Round2(10 * SumRatings(rows), n),
         total_votes |-> n]

\* ... over the rows of one post: FROM ratings WHERE post_id=?, and the
\* LEFT JOIN ratings r ON p.id = r.post_id of the post listings.
Aggregate(post_id) == AggregateOf({r \in ratings : r.post_id = post_id})

\* One row of the SELECT of get_posts / get_single_post: posts JOIN users
\* LEFT JOIN ratings GROUP BY p.id, u.name.
PostView(p, u) ==
    [id |-> p.id, title |-> p.title, category |-> p.category, content |-> p.content,
     author |-> u.name, avg_rating |-> Aggregate(p.id).avg_rating,
     total_votes |-> Aggregate(p.id).total_votes]

PostViews(rows) ==
    {PostView(p, u) : <<p, u>> \in {pu \in rows \X users : pu[1].user_id = pu[2].id}}

GetPostsOutcome ==
    [body |-> PostViews(posts), resp |-> Resp("get_posts", 200, "", "closed")]

GetPosts ==
    /\ variant = "sqlite"
    /\ last' = Ran(GetPostsOutcome.resp, 0, <<>>)
    /\ UNCHANGED <<variant, users, settings, posts, ratings, seq, session, latest, loggedOut>>

GetSinglePostOutcome(post_id) ==
    LET found == PostViews({p \in posts : p.id = post_id})
    IN  IF found # {}
        THEN [body |-> found, resp |-> Resp("get_single_post", 200, "", "closed")]
        ELSE [body |-> {}, resp |-> Resp("get_single_post", 404, "Post not found", "closed")]

GetSinglePost(post_id) ==
    /\ variant = "sqlite"
    /\ last' = Ran(GetSinglePostOutcome(post_id).resp, 0, <<>>)
    /\ UNCHANGED <<variant, users, settings, posts, ratings, seq, session, latest, loggedOut>>

\* update_post whose UPDATE has lost the `AND user_id=?` of its WHERE clause.
UpdatePostAnyOwner(post_id, title, category, content) ==
    LET matched == {p \in posts : p.id = post_id}
    IN  IF ~require_login
        THEN [posts |-> posts, resp |-> Resp("update_post", 401, "Unauthorized", "none")]
        ELSE IF Falsy(title) \/ Falsy(category) \/ Falsy(content)
        THEN [posts |-> posts,
              resp |-> Resp("update_post", 400, "All fields are required", "none")]
        ELSE IF matched # {} /\ category \notin Categories
        THEN [posts |-> posts, resp |-> Resp("update_post", 500, ServerError, "open")]
        ELSE IF matched = {}
        THEN [posts |-> posts,
              resp |-> Resp("update_post", 404, "Post not found or unauthorized", "open")]
        ELSE [posts |-> (posts \ matched) \cup
                        {[p EXCEPT !.title = title, !.category = category,
                                   !.content = content] : p \in matched},
              resp |-> Resp("update_post", 200, "", "closed")]

\* update_post: UPDATE ... WHERE id=? AND user_id=?.  When no row matches the
\* handler returns 404 before conn.commit() and conn.close().  When a row matches
\* and the category fails the CHECK constraint, IntegrityError escapes (500).
UpdatePostOutcome(post_id, title, category, content) ==
    LET matched == {p \in posts : p.id = post_id /\ p.user_id \in session}
    IN  IF ~require_login
        THEN [posts |-> posts, resp |-> Resp("update_post", 401, "Unauthorized", "none")]
        ELSE IF Falsy(title) \/ Falsy(category) \/ Falsy(content)
        THEN [posts |-> posts,
              resp |-> Resp("update_post", 400, "All fields are required", "none")]
        ELSE IF matched # {} /\ category \notin Categories
        THEN [posts |-> posts, resp |-> Resp("update_post", 500, ServerError, "open")]
        ELSE IF matched = {}
        THEN [posts |-> posts,
              resp |-> Resp("update_post", 404, "Post not found or unauthorized", "open")]
        ELSE [posts |-> (posts \ matched) \cup
                        {[p EXCEPT !.title = title, !.category = category,
                                   !.content = content] : p \in matched},
              resp |-> Resp("update_post", 200, "", "closed")]

UpdatePost(post_id, title, category, content) ==
    /\ variant = "sqlite"
    /\ LET o == UpdatePostOutcome(post_id, title, category, content)
       IN  /\ posts' = o.posts
           /\ last' = Ran(o.resp, post_id, <<>>)
    /\ UNCHANGED <<variant, users, settings, ratings, seq, session, latest, loggedOut>>

\* delete_post: DELETE ... WHERE id=? AND user_id=?; same early return on no
\* match.  The ratings of the post go with it only when foreign keys are enforced.
DeletePostOutcome(post_id) ==
    LET matched == {p \in posts : p.id = post_id /\ p.user_id \in session}
    IN  IF ~require_login
        THEN [posts |-> posts, ratings |-> ratings,
              resp |-> Resp("delete_post", 401, "Unauthorized", "none")]
        ELSE IF matched = {}
        THEN [posts |-> posts, ratings |-> ratings,
              resp |-> Resp("delete_post", 404, "Post not found or unauthorized", "open")]
        ELSE [posts |-> posts \ matched,
              ratings |-> IF ForeignKeys
                          THEN {r \in ratings : r.post_id # post_id}
                          ELSE ratings,
              resp |-> Resp("delete_post", 200, "", "closed")]

DeletePost(post_id) ==
    /\ variant = "sqlite"
    /\ LET o == DeletePostOutcome(post_id)
       IN  /\ posts' = o.posts
           /\ ratings' = o.ratings
           /\ last' = Ran(o.resp, post_id, <<>>)
    /\ UNCHANGED <<variant, users, settings, seq, session, latest, loggedOut>>

\* ---------------------------------------------------- src/app.py: ratings
\* The CHECK constraint of ratings.rating; a REAL such as 4.5 keeps its value
\* under INTEGER affinity and passes BETWEEN 1 AND 5.
RatingCheck(v) == 10 =< v /\ v =< 50

\* rate_post with a plain INSERT and no UNIQUE(user_id, post_id) to stop it.
RatePostPlainInsert(post_id, rating) ==
    IF ~require_login
    THEN [ratings |-> ratings, resp |-> Resp("rate_post", 401, "Unauthorized", "none")]
    ELSE IF RatingRejected(rating)
    THEN [ratings |-> ratings,
          resp |-> Resp("rate_post", 400, "Rating must be between 1 and 5", "none")]
    ELSE [ratings |-> ratings \cup {[user_id |-> SessionUser, post_id |-> post_id,
                                     rating |-> rating[1]]},
          resp |-> Resp("rate_post", 200, "", "closed")]

\* rate_post: login check, validation, then INSERT ... ON CONFLICT(user_id,
\* post_id) DO UPDATE SET rating=excluded.rating.
RatePostOutcome(post_id, rating) ==
    IF ~require_login
    THEN [ratings |-> ratings, resp |-> Resp("rate_post", 401, "Unauthorized", "none")]
    ELSE IF RatingRejected(rating)
    THEN [ratings |-> ratings,
          resp |-> Resp("rate_post", 400, "Rating must be between 1 and 5", "none")]
    ELSE IF ~RatingCheck(rating[1])
            \/ (ForeignKeys /\ ~\E p \in posts : p.id = post_id)
    THEN [ratings |-> ratings, resp |-> Resp("rate_post", 500, ServerError, "open")]
    ELSE [ratings |-> {r \in ratings : ~(r.user_id = SessionUser /\ r.post_id = post_id)}
                      \cup {[user_id |-> SessionUser, post_id |-> post_id,
                             rating |-> rating[1]]},
          resp |-> Resp("rate_post", 200, "", "closed")]

RatePost(post_id, rating) ==
    /\ variant = "sqlite"
    /\ LET o == RatePostOutcome(post_id, rating)
       IN  /\ ratings' = o.ratings
           /\ last' = Ran(o.resp, 0,
                          IF o.resp.status = 200
                          THEN latest[<<SessionUser, post_id>>] ELSE <<>>)
           /\ latest' = IF o.resp.status = 200
                        THEN [latest EXCEPT ![<<SessionUser, post_id>>] = rating]
                        ELSE latest
    /\ UNCHANGED <<variant, users, settings, posts, seq, session, loggedOut>>

GetPostRatingOutcome(post_id) ==
    [body |-> Aggregate(post_id), resp |-> Resp("get_post_rating", 200, "", "closed")]

GetPostRating(post_id) ==
    /\ variant = "sqlite"
    /\ last' = Ran(GetPostRatingOutcome(post_id).resp, 0, <<>>)
    /\ UNCHANGED <<variant, users, settings, posts, ratings, seq, session, latest, loggedOut>>

\* --------------------------------------------------- src/app.py: settings
GetSettingsOutcome ==
    IF ~require_login
    THEN [body |-> {}, resp |-> Resp("get_settings", 401, "Unauthorized", "none")]
    ELSE [body |-> {[default_category |-> s.default_category, theme |-> s.theme] :
                    s \in {t \in settings : t.user_id \in session}},
          resp |-> Resp("get_settings", 200, "", "closed")]

GetSettings ==
    /\ variant = "sqlite"
    /\ last' = Ran(GetSettingsOutcome.resp, 0, <<>>)
    /\ UNCHANGED <<variant, users, settings, posts, ratings, seq, session, latest, loggedOut>>

\* update_settings: both columns are overwritten with what data.get returned,
\* None (SQL NULL) for an absent key.  A CHECK constraint accepts NULL and
\* rejects a value outside the enum with IntegrityError, which nothing catches.
UpdateSettingsOutcome(default_category, theme) ==
    LET matched == {s \in settings : s.user_id \in session}
    IN  IF ~require_login
        THEN [settings |-> settings,
              resp |-> Resp("update_settings", 401, "Unauthorized", "none")]
        ELSE IF matched # {}
                /\ (default_category \notin Categories \cup {None}
                    \/ theme \notin Themes \cup {None})
        THEN [settings |-> settings,
              resp |-> Resp("update_settings", 500, ServerError, "open")]
        ELSE [settings |-> (settings \ matched) \cup
                           {[s EXCEPT !.default_category = default_category,
                                      !.theme = theme] : s \in matched},
              resp |-> Resp("update_settings", 200, "", "closed")]

UpdateSettings(default_category, theme) ==
    /\ variant = "sqlite"
    /\ LET o == UpdateSettingsOutcome(default_category, theme)
       IN  /\ settings' = o.settings
           /\ last' = Ran(o.resp, 0, <<>>)
    /\ UNCHANGED <<variant, users, posts, ratings, seq, session, latest, loggedOut>>

\* ----------------------------------------------------- src/api/app.py
\* get_db may raise; connected = FALSE is a request during which it does.  Every
\* handler calls it inside its try block: the except clause builds a 500, then
\* `finally: conn.close()` finds conn unbound and its UnboundLocalError becomes
\* Flask's own 500.  No connection was opened.
\*
\* signup: one INSERT into users; the schema of this variant has no settings
\* table and the handler inserts nothing else (user_id = cur.lastrowid is unused).
ApiSignupOutcome(name, email, password, connected) ==
    LET user_id == MaxId(users) + 1
        row == [id |-> user_id, name |-> name, email |-> email,
                password |-> generate_password_hash(password)]
    IN  IF Falsy(name) \/ Falsy(email) \/ Falsy(password)
        THEN [users |-> users,
              resp |-> Resp("signup", 400, "All fields are required", "none")]
        ELSE IF ~connected
        THEN [users |-> users, resp |-> Resp("signup", 500, ServerError, "none")]
        ELSE IF \E u \in users : u.email = email
        THEN [users |-> users,
              resp |-> Resp("signup", 400, "Email already exists!", "closed")]
        ELSE [users |-> users \cup {row}, resp |-> Resp("signup", 201, "", "closed")]

ApiSignup(name, email, password, connected) ==
    /\ variant = "mysql"
    /\ LET o == ApiSignupOutcome(name, email, password, connected)
       IN  /\ users' = o.users
           /\ last' = Ran(o.resp, 0, <<>>)
    /\ UNCHANGED <<variant, settings, posts, ratings, seq, session, latest, loggedOut>>

\* login: on success a token carrying the user id is returned; the client
\* keeps it as its credential.
ApiLoginOutcome(email, password, connected) ==
    LET found == {u \in users : u.email = email}
    IN  IF Falsy(email) \/ Falsy(password)
        THEN [session |-> session,
              resp |-> Resp("login", 400, "Email and password are required", "none")]
        ELSE IF ~connected
        THEN [session |-> session, resp |-> Resp("login", 500, ServerError, "none")]
        ELSE IF \E u \in found : check_password_hash(u.password, password)
        THEN [session |-> {u.id : u \in found}, resp |-> Resp("login", 200, "", "closed")]
        ELSE [session |-> session,
              resp |-> Resp("login", 401, "Invalid credentials", "closed")]

ApiLogin(email, password, connected) ==
    /\ variant = "mysql"
    /\ LET o == ApiLoginOutcome(email, password, connected)
       IN  /\ session' = o.session
           /\ last' = Ran(o.resp, 0, <<>>)
           /\ loggedOut' = IF o.resp.status = 200 THEN FALSE ELSE loggedOut
    /\ UNCHANGED <<variant, users, settings, posts, ratings, seq, latest>>

\* token_required + create_post: a category outside the ENUM column is an
\* error of the (strict-mode) server, caught by `except Exception` (500).
ApiCreatePostOutcome(title, category, content, connected) ==
    IF session = {}
    THEN [posts |-> posts, seq |-> seq,
          resp |-> Resp("create_post", 401, "Token is missing!", "none")]
    ELSE IF Falsy(title) \/ Falsy(category) \/ Falsy(content)
    THEN [posts |-> posts, seq |-> seq,
          resp |-> Resp("create_post", 400, "All fields are required", "none")]
    ELSE IF ~connected
    THEN [posts |-> posts, seq |-> seq,
          resp |-> Resp("create_post", 500, ServerError, "none")]
    ELSE IF category \notin Categories
    THEN [posts |-> posts, seq |-> seq,
          resp |-> Resp("create_post", 500, "Server error", "closed")]
    ELSE [posts |-> posts \cup {[id |-> seq + 1, user_id |-> SessionUser,
                                 title |-> title, category |-> category,
                                 content |-> content]},
          seq |-> seq + 1,
          resp |-> Resp("create_post", 201, "", "closed")]

ApiCreatePost(title, category, content, connected) ==
    /\ variant = "mysql"
    /\ LET o == ApiCreatePostOutcome(title, category, content, connected)
       IN  /\ o.seq =< MaxPosts
           /\ posts' = o.posts
           /\ seq' = o.seq
           /\ last' = Ran(o.resp, 0, <<>>)
    /\ UNCHANGED <<variant, users, settings, ratings, session, latest, loggedOut>>

ApiGetPostsOutcome(connected) ==
    IF ~connected
    THEN [body |-> {}, resp |-> Resp("get_posts", 500, ServerError, "none")]
    ELSE [body |-> PostViews(posts), resp |-> Resp("get_posts", 200, "", "closed")]

ApiGetPosts(connected) ==
    /\ variant = "mysql"
    /\ last' = Ran(ApiGetPostsOutcome(connected).resp, 0, <<>>)
    /\ UNCHANGED <<variant, users, settings, posts, ratings, seq, session, latest, loggedOut>>

\* ------------------------------------------------------------------- Next
AuthStep ==
    \/ \E d \in SignupInputs : Signup(d.name, d.email, d.password)
    \/ \E d \in LoginInputs : Login(d.email, d.password)
    \/ Logout
    \/ \E d \in SignupInputs, k \in BOOLEAN : ApiSignup(d.name, d.email, d.password, k)
    \/ \E d \in LoginInputs, k \in BOOLEAN : ApiLogin(d.email, d.password, k)

PostLifeStep ==
    \/ \E d \in PostInputs : CreatePost(d.title, d.category, d.content)
    \/ \E p \in PostIds : DeletePost(p)
    \/ GetPosts
    \/ \E p \in PostIds : GetSinglePost(p)
    \/ \E d \in PostInputs, k \in BOOLEAN : ApiCreatePost(d.title, d.category, d.content, k)
    \/ \E k \in BOOLEAN : ApiGetPosts(k)

PostEditStep ==
    \/ \E u \in UserIds : GetUserPosts(u)
    \/ \E p \in PostIds, d \in EditInputs : UpdatePost(p, d.title, d.category, d.content)

RatingStep ==
    \/ \E p \in RatedPostIds, r \in RatingInputs : RatePost(p, r)
    \/ \E p \in PostIds : GetPostRating(p)

SettingsStep ==
    \/ GetSettings
    \/ \E d \in SettingsInputs : UpdateSettings(d.default_category, d.theme)

Next == AuthStep \/ PostLifeStep \/ PostEditStep \/ RatingStep \/ SettingsStep

\* The whole program.
Spec == Init /\ [][Next]_vars

\* The program restricted to the handlers that read or write the tables a
\* property is about; the handlers left out leave those tables unchanged.
SpecAccounts == Init /\ [][AuthStep \/ SettingsStep]_vars
SpecPosts == Init /\ [][AuthStep \/ PostLifeStep \/ PostEditStep]_vars
SpecRatings == Init /\ [][AuthStep \/ PostLifeStep \/ RatingStep]_vars

\* The program with one valid request body per handler that needs a login:
\* every such handler runs with and without a session.
SessionStep ==
    \/ \E d \in PostInputs \ BadPostInputs : CreatePost(d.title, d.category, d.content)
    \/ \E u \in UserIds : GetUserPosts(u)
    \/ \E p \in RatedPostIds, d \in EditInputs \ BadPostInputs :
          UpdatePost(p, d.title, d.category, d.content)
    \/ \E p \in RatedPostIds : DeletePost(p)
    \/ \E p \in RatedPostIds : RatePost(p, <<50>>)
    \/ GetSettings
    \/ \E d \in {x \in SettingsInputs : x.theme \in Themes} :
          UpdateSettings(d.default_category, d.theme)

SpecSession == Init /\ [][AuthStep \/ SessionStep]_vars

\* The program after three signups, a login, a create_post and a logout, from
\* where the three users rate the one post and the aggregates are read.
InitAggregate ==
    /\ variant = "sqlite"
    /\ \E order \in [1..Cardinality(SeedEmails) -> SeedEmails] :
          /\ \A i, j \in DOMAIN order : order[i] = order[j] => i = j
          /\ order[1] = "ann@x.com" /\ order[2] = "bob@x.com"
          /\ users = {[id |-> i, name |-> "Ann", email |-> order[i],
                       password |-> generate_password_hash("pw123")] : i \in DOMAIN order}
    /\ settings = {[user_id |-> i, default_category |-> DefaultCategory,
                    theme |-> DefaultTheme] : i \in 1..Cardinality(SeedEmails)}
    /\ posts = {[id |-> 1, user_id |-> 1, title |-> "T", category |-> "poetry",
                 content |-> "body"]}
    /\ ratings = {}
    /\ seq = 1
    /\ session = {}
    /\ last = Ran(Resp("logout", 200, "", "none"), 0, <<>>)
    /\ latest = [k \in (UserIds \X RatedPostIds) |-> <<>>]
    /\ loggedOut = TRUE

AggregateStep ==
    \/ \E e \in SeedEmails : Login(e, "pw123")
    \/ Logout
    \/ \E r \in AggregateRatingInputs : RatePost(1, r)
    \/ GetPosts
    \/ \E p \in PostIds : GetSinglePost(p)
    \/ \E p \in PostIds : GetPostRating(p)

SpecAggregate == InitAggregate /\ [][AggregateStep]_vars

\* =================================================================== claims
RatingsOf(post_id) == {r \in ratings : r.post_id = post_id}

\* C1: at most one ratings row per (user_id, post_id); every row carries the
\* latest value its user submitted for its post; a post rated by one user only
\* reports that user's latest value as its average with count 1; and a
\* rate_post that follows the same user's 3 with a 5 leaves average 5, count 1
\* when nobody else rated the post.
C1_OneRowLatestValue ==
    /\ \A r1 \in ratings, r2 \in ratings :
          (r1.user_id = r2.user_id /\ r1.post_id = r2.post_id) => r1 = r2
    /\ \A r \in ratings : latest[<<r.user_id, r.post_id>>] = <<r.rating>>
    /\ \A p \in RatedPostIds, u \in UserIds :
          {r.user_id : r \in RatingsOf(p)} = {u}
          => Aggregate(p) = [avg_rating |-> 10 * latest[<<u, p>>][1], total_votes |-> 1]
    /\ \A p \in RatedPostIds :
          (/\ last.op = "rate_post"
           /\ last.overwrote = <<30>>
           /\ latest[<<SessionUser, p>>] = <<50>>
           /\ {r.user_id : r \in RatingsOf(p)} = session)
          => Aggregate(p) = [avg_rating |-> 500, total_votes |-> 1]

\* C1 witness: a 5 has just overwritten the same user's 3 and the post reports 5 / 1.
C1_Witness ==
    /\ last.op = "rate_post"
    /\ last.status = 200
    /\ last.overwrote = <<30>>
    /\ \E p \in RatedPostIds :
          /\ latest[<<SessionUser, p>>] = <<50>>
          /\ Aggregate(p) = [avg_rating |-> 500, total_votes |-> 1]

UserOf(email) == {u \in users : u.email = email}

\* What signup answers in the running variant when the store is reachable.
SignupOutcomeOf(d) ==
    IF variant = "sqlite"
    THEN SignupOutcome(d.name, d.email, d.password)
    ELSE ApiSignupOutcome(d.name, d.email, d.password, TRUE)

\* C2: a signup with an email that is already registered answers 400 "Email
\* already exists!" and changes neither users nor settings; no two users rows
\* share an email; a registered row is never removed or changed.
C2_DuplicateEmailRejected ==
    /\ [](/\ \A d \in SignupInputs :
               (~Falsy(d.name) /\ ~Falsy(d.password) /\ UserOf(d.email) # {})
               => /\ SignupOutcomeOf(d).resp.status = 400
                  /\ SignupOutcomeOf(d).resp.error = "Email already exists!"
                  /\ SignupOutcomeOf(d).users = users
                  /\ variant = "sqlite"
                     => SignupOutcome(d.name, d.email, d.password).settings = settings
          /\ \A u1 \in users, u2 \in users : u1.email = u2.email => u1 = u2)
    /\ [][users \subseteq users']_vars

\* C2 witness: a signup has just been refused as a duplicate, and the email it
\* named is still held by exactly one row.
C2_Witness ==
    /\ last.op = "signup"
    /\ last.status = 400
    /\ last.error = "Email already exists!"
    /\ \E e \in Emails : Cardinality(UserOf(e)) = 1

SettingsOf(user_id) == {s \in settings : s.user_id = user_id}

\* C3: every user has exactly one settings row; right after a successful
\* signup the new user's row holds the defaults; no settings row is without
\* its user.
C3_UserHasOneSettingsRow ==
    /\ \A u \in users : Cardinality(SettingsOf(u.id)) = 1
    /\ (last.op = "signup" /\ last.status = 201)
       => SettingsOf(MaxId(users)) =
              {[user_id |-> MaxId(users), default_category |-> "poetry", theme |-> "light"]}
    /\ \A s \in settings : \E u \in users : u.id = s.user_id

\* The posts a logged-in requester does not own, and the ids no post has.
ForeignPosts == {p \in posts : session # {} /\ p.user_id \notin session}
FreeIds == {q \in PostIds : \A p \in posts : p.id # q}
Complete(d) == ~Falsy(d.title) /\ ~Falsy(d.category) /\ ~Falsy(d.content)

\* C4: for a logged-in requester and a post of another user, update_post and
\* delete_post leave posts (and ratings) as they are and answer exactly what
\* they answer for an id no post has; that answer is 404 "Post not found or
\* unauthorized" whenever the request body has its three fields.
C4_NonOwnerSameAsMissing ==
    variant = "sqlite" => \A p \in ForeignPosts, q \in FreeIds :
        /\ \A d \in EditInputs :
              LET mine == UpdatePostOutcome(p.id, d.title, d.category, d.content)
                  none == UpdatePostOutcome(q, d.title, d.category, d.content)
              IN  /\ mine.posts = posts
                  /\ mine.resp = none.resp
                  /\ Complete(d) => /\ mine.resp.status = 404
                                    /\ mine.resp.error = "Post not found or unauthorized"
        /\ DeletePostOutcome(p.id).posts = posts
        /\ DeletePostOutcome(p.id).ratings = ratings
        /\ DeletePostOutcome(p.id).resp = DeletePostOutcome(q).resp
        /\ DeletePostOutcome(p.id).resp.status = 404
        /\ DeletePostOutcome(p.id).resp.error = "Post not found or unauthorized"

\* C4 witness: an update_post or delete_post naming another user's post has
\* just answered 404, and the post is still there.
C4_Witness ==
    /\ last.op \in {"update_post", "delete_post"}
    /\ last.status = 404
    /\ \E p \in ForeignPosts : p.id = last.target /\ p.title = "T"

\* a is the quotient sum / n of n ratings (sum in tenths) in hundredths, to
\* the nearest hundredth, a half upwards; 0 when there is no rating.
NearestMean(a, sum, n) ==
    IF n = 0 THEN a = 0
    ELSE -n < 2 * (a * n - 10 * sum) /\ 2 * (a * n - 10 * sum) =< n

AggregateMatches(agg, post_id) ==
    /\ agg.total_votes = Cardinality(RatingsOf(post_id))
    /\ NearestMean(agg.avg_rating, SumRatings(RatingsOf(post_id)),
                   Cardinality(RatingsOf(post_id)))
    /\ {r.rating : r \in RatingsOf(post_id)} = {30, 40, 50}
       => agg.avg_rating = 400 /\ agg.total_votes = 3
    /\ RatingsOf(post_id) = {} => agg.avg_rating = 0 /\ agg.total_votes = 0

\* C5: what get_posts, get_single_post and get_post_rating report for a post is
\* the number of its ratings rows and their mean to the nearest hundredth (4, 5
\* and 3 give 4.00), and 0 / 0 when it has no ratings row; every post is listed.
C5_AggregateFromLiveRows ==
    /\ \A p \in posts :
          /\ \E v \in GetPostsOutcome.body : v.id = p.id
          /\ GetSinglePostOutcome(p.id).resp.status = 200
          /\ \A v \in GetSinglePostOutcome(p.id).body :
                v.id = p.id /\ AggregateMatches(v, p.id)
    /\ \A v \in GetPostsOutcome.body : AggregateMatches(v, v.id)
    /\ \A q \in PostIds : AggregateMatches(GetPostRatingOutcome(q).body, q)

\* C5 witness: three users have rated the post, the mean is not a whole number
\* of hundredths, and an aggregate has just been read.
C5_Witness ==
    /\ last.op \in {"get_posts", "get_single_post", "get_post_rating"}
    /\ \E p \in posts :
          /\ Cardinality(RatingsOf(p.id)) = 3
          /\ (10 * SumRatings(RatingsOf(p.id))) % 3 # 0

\* What create_post answers in the running variant when the store is reachable.
CreatePostOutcomeOf(d) ==
    IF variant = "sqlite"
    THEN CreatePostOutcome(d.title, d.category, d.content)
    ELSE ApiCreatePostOutcome(d.title, d.category, d.content, TRUE)

\* C6: create_post by a logged-in user answers 400 and stores nothing when a
\* field is missing or the category is outside the enum; every stored post has
\* a category of the enum.
C6_InvalidPostIs400 ==
    /\ \A d \in PostInputs :
          (session # {} /\ (~Complete(d) \/ d.category \notin Categories))
          => /\ CreatePostOutcomeOf(d).resp.status = 400
             /\ CreatePostOutcomeOf(d).posts = posts
    /\ \A p \in posts : p.category \in Categories

AuthOps == {"create_post", "get_user_posts", "update_post", "delete_post",
            "rate_post", "get_settings", "update_settings"}

Refused(resp) == resp.status = 401 /\ resp.error = "Unauthorized"

\* C7: logout leaves no user in the session; and with no user in the session
\* every handler that requires a login answers 401 and leaves every table as
\* it is, whatever the request.
C7_NoSessionIs401 ==
    /\ last.op = "logout" => session = {}
    /\ (last.op \in AuthOps /\ session = {}) => last.status = 401
    /\ (variant = "sqlite" /\ session = {}) =>
          /\ \A d \in PostInputs :
                LET o == CreatePostOutcome(d.title, d.category, d.content)
                IN  Refused(o.resp) /\ o.posts = posts /\ o.seq = seq
          /\ \A u \in UserIds : Refused(GetUserPostsOutcome(u).resp)
          /\ \A p \in PostIds, d \in EditInputs :
                LET o == UpdatePostOutcome(p, d.title, d.category, d.content)
                IN  Refused(o.resp) /\ o.posts = posts
          /\ \A p \in PostIds :
                LET o == DeletePostOutcome(p)
                IN  Refused(o.resp) /\ o.posts = posts /\ o.ratings = ratings
          /\ \A p \in PostIds, r \in RatingInputs :
                LET o == RatePostOutcome(p, r)
                IN  Refused(o.resp) /\ o.ratings = ratings
          /\ Refused(GetSettingsOutcome.resp)
          /\ \A d \in SettingsInputs :
                LET o == UpdateSettingsOutcome(d.default_category, d.theme)
                IN  Refused(o.resp) /\ o.settings = settings
    /\ (variant = "mysql" /\ session = {}) =>
          \A d \in PostInputs :
              LET o == ApiCreatePostOutcome(d.title, d.category, d.content, TRUE)
              IN  o.resp.status = 401 /\ o.posts = posts

\* C7 witness: after a logout, with posts, ratings and changed settings in the
\* store, a handler that requires a login has just answered 401.
C7_Witness ==
    /\ loggedOut
    /\ session = {}
    /\ last.op \in AuthOps
    /\ last.status = 401
    /\ posts # {}
    /\ ratings # {}
    /\ \E s \in settings : s.theme = "dark"

\* C8: rate_post answers 400 and writes nothing when the rating is absent or
\* outside 1..5; every stored rating is a whole number from 1 to 5.
C8_RatingIsInteger1To5 ==
    /\ \A p \in RatedPostIds, r \in RatingInputs :
          (variant = "sqlite" /\ session # {}
           /\ (Len(r) = 0 \/ r[1] < 10 \/ r[1] > 50))
          => /\ RatePostOutcome(p, r).resp.status = 400
             /\ RatePostOutcome(p, r).ratings = ratings
    /\ \A r \in ratings : r.rating % 10 = 0 /\ 10 =< r.rating /\ r.rating =< 50

\* C9: right after a successful delete_post no ratings row names the deleted
\* post and its aggregate is 0 / 0; every ratings row names an existing post.
C9_RatingsCascade ==
    /\ (last.op = "delete_post" /\ last.status = 200)
       => /\ RatingsOf(last.target) = {}
          /\ GetPostRatingOutcome(last.target).body = [avg_rating |-> 0, total_votes |-> 0]
    /\ \A r \in ratings : \E p \in posts : p.id = r.post_id

\* C10: a handler that answers with an error has no connection left open.
C10_ErrorPathClosesConnection ==
    last.status >= 400 => last.conn # "open"

\* What the claim allows an update_settings request d to do to the settings
\* table: the rows of other users stay, and in the caller's row a field the
\* request leaves out keeps its value.
SettingsFrame(d) ==
    /\ \A s \in settings : s.user_id \notin session => s \in settings'
    /\ \A s \in settings : s.user_id \in session =>
          \E t \in settings' :
              /\ t.user_id = s.user_id
              /\ d.default_category = None => t.default_category = s.default_category
              /\ d.theme = None => t.theme = s.theme
    /\ Cardinality(settings') = Cardinality(settings)

\* C11: update_settings changes only the caller's settings row and, in it, only
\* the fields the request supplies: a request with a theme and no
\* default_category (or the reverse) leaves the other field as it was.
C11_UpdateSettingsFrame ==
    [][\A d \in SettingsInputs :
          UpdateSettings(d.default_category, d.theme) => SettingsFrame(d)]_vars

====
